---- MODULE Spec2Model ----
(***************************************************************************)
(* pycodex: the catalog (models/database.py), the indexer                  *)
(* (core/indexer.py) and the query engine (core/search.py).                *)
(*                                                                         *)
(* Text is a sequence of one-character strings, so that lower(), strip(),  *)
(* the regular expression of the structured search and SQL LIKE are        *)
(* computed character by character.  An Optional value is <<>> (None) or   *)
(* <<x>>.  A table is the set of its rows; a row's id is its SQLite rowid. *)
(***************************************************************************)
EXTENDS Integers, Sequences, FiniteSets, TLC

VARIABLES db, latest, lastCall, outcome, search, reply, clock, sessions, indexers

vars == <<db, latest, lastCall, outcome, search, reply, clock, sessions, indexers>>

None == <<>>
Some(x) == <<x>>

(***************************************************************************)
(* Bounds of the model.                                                    *)
(***************************************************************************)
MaxModules == 1
MaxRowId == 2

(***************************************************************************)
(* Inputs: project names, root paths, file paths and parsed descriptions.  *)
(***************************************************************************)
ProjectNames == {"n1", "n2"}
RootPaths == {"/r1", "/r2"}
Paths == {"/r1/ab.py", "/r1/aab.py"}

\* ModuleInfo.module_name: the stem of the path
module_name(path) ==
    CASE path = "/r1/ab.py" -> <<"a", "b">>
      [] path = "/r1/aab.py" -> <<"a", "a", "b">>
      [] path = "/r2/ab.py" -> <<"a", "b">>

FunctionInfo(name, docstring, lineno, end_lineno) ==
    [name |-> name, docstring |-> docstring, lineno |-> lineno,
     end_lineno |-> end_lineno, args |-> << <<"a">> >>, decorators |-> <<>>,
     return_annotation |-> None]

ClassInfo(name, docstring, lineno, end_lineno, methods) ==
    [name |-> name, docstring |-> docstring, lineno |-> lineno,
     end_lineno |-> end_lineno, methods |-> methods,
     base_classes |-> <<>>, decorators |-> <<>>]

ImportInfo(name, alias, is_from_import, parent_module) ==
    [module_name |-> name, alias |-> alias, is_from_import |-> is_from_import,
     parent_module |-> parent_module]

MethodM == FunctionInfo(<<"a", "a", "b">>, Some(<<":", "a">>), 6, 7)
FunctionF == FunctionInfo(<<"a", "a", "b">>, None, 10, 11)

\* the bodies of the parsed descriptions (everything but the path): the one with
\* every optional field absent and every list empty, and one with a class that
\* has a method, a top-level function, an import and a variable
EmptyBody ==
    [docstring |-> None, imports |-> <<>>, functions |-> <<>>,
     classes |-> <<>>, variables |-> <<>>]

FullBody ==
    [docstring |-> Some(<<"b", "a">>),
     imports |-> << ImportInfo(<<"a", "b">>, Some(<<"b">>), TRUE, Some(<<"b", "a">>)) >>,
     functions |-> <<FunctionF>>,
     classes |-> << ClassInfo(<<"A", "b">>, Some(<<"b", "a">>), 5, 8, <<MethodM>>) >>,
     variables |-> << [name |-> <<"a", "b">>, lineno |-> 1, value |-> <<"b", "a">>] >>]

Bodies == {EmptyBody, FullBody}

ModuleInfo(path, body) ==
    [path |-> path, docstring |-> body.docstring, imports |-> body.imports,
     functions |-> body.functions, classes |-> body.classes,
     variables |-> body.variables]

ModuleInfos == {ModuleInfo(p, b) : p \in Paths, b \in Bodies}

RECURSIVE SeqsUpTo(_, _)
SeqsUpTo(S, n) ==
    IF n = 0 THEN {<<>>}
    ELSE LET shorter == SeqsUpTo(S, n - 1)
         IN shorter \cup {Append(s, x) : s \in shorter, x \in S}

\* the lists of up to MaxModules descriptions, and the lists that name one path twice
ModuleLists ==
    SeqsUpTo(ModuleInfos, MaxModules)
      \cup {<<de[1], de[2]>> :
               de \in {x \in ModuleInfos \X ModuleInfos : x[1].path = x[2].path}}

\* the calls: the files of /r1 are indexed under /r1, and /r2 holds no file
Calls ==
    {[name |-> n, root_path |-> "/r1", modules |-> ms] :
        n \in ProjectNames, ms \in ModuleLists}
      \cup {[name |-> "n1", root_path |-> "/r2", modules |-> <<>>]}

(***************************************************************************)
(* The catalog.                                                            *)
(***************************************************************************)
EmptyCatalog ==
    [projects |-> {}, modules |-> {}, functions |-> {}, classes |-> {},
     imports |-> {}, variables |-> {}]

Ids(rows) == {r.id : r \in rows}

MaxOf(S) == CHOOSE x \in S : \A y \in S : y <= x

\* the rowid SQLite gives an inserted row: the highest one of the table plus one
NextId(rows) == MaxOf(Ids(rows) \cup {0}) + 1

\* Query.first(): the matching row met first, in rowid order
First(rows) == CHOOSE r \in rows : \A q \in rows : r.id <= q.id

\* json.dumps of a list of strings
RECURSIVE JsonItems(_)
JsonItems(list) ==
    IF list = <<>> THEN <<>>
    ELSE <<"\"">> \o Head(list) \o <<"\"">>
         \o (IF Tail(list) = <<>> THEN <<>> ELSE <<",", " ">>)
         \o JsonItems(Tail(list))

JsonDumps(list) == <<"[">> \o JsonItems(list) \o <<"]">>

(***************************************************************************)
(* PyIndexer                                                               *)
(***************************************************************************)
\* the default of Module.last_indexed: the time at which models/database.py was
\* imported, before every call
ImportTime == 0

\* the clock at the start, after the import
StartTime == 1

\* a lookup of the project by its name in place of its root path
ResolveProjectByName(s, name, root_path) ==
    LET found == {p \in s.projects : p.name = name}
    IN IF found # {}
       THEN [db |-> s, project_id |-> First(found).id]
       ELSE LET id == NextId(s.projects)
            IN [db |-> [s EXCEPT !.projects =
                            @ \cup {[id |-> id, name |-> name, root_path |-> root_path,
                                     created_at |-> clock, updated_at |-> clock]}],
                project_id |-> id]

\* index_project, the lookup of the project and its creation
ResolveProject(s, name, root_path) ==
    LET found == {p \in s.projects : p.root_path = root_path}
    IN IF found # {}
       THEN [db |-> s, project_id |-> First(found).id]
       ELSE LET id == NextId(s.projects)
            IN [db |-> [s EXCEPT !.projects =
                            @ \cup {[id |-> id, name |-> name, root_path |-> root_path,
                                     created_at |-> clock, updated_at |-> clock]}],
                project_id |-> id]

\* a clearing step that does not filter by module
ClearEveryModule(s, module_id) ==
    [s EXCEPT
       !.functions = {f \in @ : f.class_id # None},
       !.classes = {},
       !.imports = {},
       !.variables = {}]

\* _index_module, "Clear existing data"
ClearModule(s, module_id) ==
    [s EXCEPT
       !.functions = {f \in @ : ~(f.module_id = module_id /\ f.class_id = None)},
       !.classes = {c \in @ : c.module_id # module_id},
       !.imports = {i \in @ : i.module_id # module_id},
       !.variables = {v \in @ : v.module_id # module_id}]

\* a module lookup that matches no row (the path compared without str()), so
\* that every description creates a Module row
ResolveModuleNoMatch(s, project_id, module_info) ==
    LET id == NextId(s.modules)
    IN [db |-> [s EXCEPT !.modules = @ \cup
                  {[id |-> id, project_id |-> project_id,
                    name |-> module_name(module_info.path),
                    path |-> module_info.path,
                    docstring |-> module_info.docstring,
                    last_indexed |-> ImportTime]}],
        module_id |-> id]

\* _index_module, the lookup of the module, then the clearing or the creation
ResolveModule(s, project_id, module_info) ==
    LET found == {m \in s.modules :
                    m.project_id = project_id /\ m.path = module_info.path}
    IN IF found # {}
       THEN [db |-> ClearModule(s, First(found).id), module_id |-> First(found).id]
       ELSE LET id == NextId(s.modules)
            IN [db |-> [s EXCEPT !.modules = @ \cup
                          {[id |-> id, project_id |-> project_id,
                            name |-> module_name(module_info.path),
                            path |-> module_info.path,
                            docstring |-> module_info.docstring,
                            last_indexed |-> ImportTime]}],
                module_id |-> id]

\* _index_import for each import of the description
IndexImports(s, module_id, imports) ==
    LET base == NextId(s.imports) - 1
    IN [s EXCEPT !.imports = @ \cup
          {[id |-> base + i, module_id |-> module_id,
            module_name |-> imports[i].module_name, alias |-> imports[i].alias,
            is_from_import |-> imports[i].is_from_import,
            parent_module |-> imports[i].parent_module] : i \in 1..Len(imports)}]

\* _index_variable for each variable of the description
IndexVariables(s, module_id, variables) ==
    LET base == NextId(s.variables) - 1
    IN [s EXCEPT !.variables = @ \cup
          {[id |-> base + i, module_id |-> module_id, name |-> variables[i].name,
            lineno |-> variables[i].lineno, value |-> Some(variables[i].value)]
             : i \in 1..Len(variables)}]

\* _index_function for each function of a list, all with the same class_id
IndexFunctions(s, module_id, class_id, funcs) ==
    LET base == NextId(s.functions) - 1
    IN [s EXCEPT !.functions = @ \cup
          {[id |-> base + i, module_id |-> module_id, class_id |-> class_id,
            name |-> funcs[i].name, docstring |-> funcs[i].docstring,
            lineno |-> funcs[i].lineno, end_lineno |-> funcs[i].end_lineno,
            args |-> JsonDumps(funcs[i].args),
            decorators |-> JsonDumps(funcs[i].decorators),
            return_annotation |-> funcs[i].return_annotation]
             : i \in 1..Len(funcs)}]

\* _index_class: the class row, flushed for its id, then its methods
IndexClass(s, module_id, class_info) ==
    LET id == NextId(s.classes)
        withClass ==
          [s EXCEPT !.classes = @ \cup
             {[id |-> id, module_id |-> module_id, name |-> class_info.name,
               docstring |-> class_info.docstring, lineno |-> class_info.lineno,
               end_lineno |-> class_info.end_lineno,
               base_classes |-> JsonDumps(class_info.base_classes),
               decorators |-> JsonDumps(class_info.decorators)]}]
    IN IndexFunctions(withClass, module_id, Some(id), class_info.methods)

RECURSIVE IndexClasses(_, _, _)
IndexClasses(s, module_id, classes) ==
    IF classes = <<>> THEN s
    ELSE IndexClasses(IndexClass(s, module_id, Head(classes)), module_id, Tail(classes))

\* _index_module, the inserts: imports, variables, classes, top-level functions
InsertChildren(s, module_id, module_info) ==
    IndexFunctions(
      IndexClasses(
        IndexVariables(
          IndexImports(s, module_id, module_info.imports),
          module_id, module_info.variables),
        module_id, module_info.classes),
      module_id, None, module_info.functions)

\* a module that keeps the last_indexed it has
KeepLastIndexed(s, module_id) == s

\* module.last_indexed = datetime.datetime.utcnow()
SetLastIndexed(s, module_id) ==
    [s EXCEPT !.modules =
       {IF m.id = module_id THEN [m EXCEPT !.last_indexed = clock] ELSE m : m \in @}]

\* the session after the first k steps of the loop over the modules: a step is
\* the lookup with the clearing or creation, or the inserts and the stamp, of
\* one module
RECURSIVE IndexModules(_, _, _, _)
IndexModules(s, project_id, modules, k) ==
    IF modules = <<>> \/ k = 0 THEN s
    ELSE LET r == ResolveModule(s, project_id, Head(modules))
         IN IF k = 1 THEN r.db
            ELSE IndexModules(
                   SetLastIndexed(InsertChildren(r.db, r.module_id, Head(modules)),
                                  r.module_id),
                   project_id, Tail(modules), k - 2)

\* the number of steps of one call: the project, then two per module
Steps(modules) == 1 + 2 * Len(modules)

\* the session of index_project after its first k steps
SessionAfter(s, name, root_path, modules, k) ==
    IF k = 0 THEN s
    ELSE LET p == ResolveProject(s, name, root_path)
         IN IndexModules(p.db, p.project_id, modules, k - 1)

\* session.commit(): the session's writes become the catalog
Commit(committed, session) == session

\* a rollback that leaves the flushed writes in place
RollbackKeepsWrites(committed, session) == session

\* session.rollback(): the session's writes are dropped
Rollback(committed, session) == committed

\* the row ids stay within the model's bound
WithinBounds(s) ==
    /\ \A t \in {s.projects, s.modules, s.classes, s.imports, s.variables} :
         \A r \in t : r.id <= MaxRowId
    /\ \A r \in s.functions : r.id <= MaxRowId + 1

\* the description most recently indexed for each (project, path)
RECURSIVE Latest(_, _, _)
Latest(l, project_id, modules) ==
    IF modules = <<>> THEN l
    ELSE Latest({e \in l : ~(e.project_id = project_id /\ e.path = Head(modules).path)}
                  \cup {[project_id |-> project_id, path |-> Head(modules).path,
                         module_info |-> Head(modules)]},
                project_id, Tail(modules))

\* the events of the session of index_project: Session(), commit or rollback, close
IndexSessions(returned) == <<"open", IF returned THEN "commit" ELSE "rollback", "close">>

\* the number of sessions that a list of events leaves open
RECURSIVE LeftOpen(_)
LeftOpen(events) ==
    IF events = <<>> THEN 0
    ELSE (CASE Head(events) = "open" -> 1
            [] Head(events) = "close" -> -1
            [] OTHER -> 0) + LeftOpen(Tail(events))

\* the two callers of index_project of the specification of the race
Indexers == {1, 2}

Init ==
    /\ db = EmptyCatalog
    /\ latest = {}
    /\ lastCall = None
    /\ outcome = [status |-> "none", project_id |-> 0, step |-> 0]
    /\ search = None
    /\ reply = None
    /\ clock = StartTime
    /\ sessions = 0
    /\ indexers = [i \in Indexers |-> [pc |-> "idle"]]

\* index_project, every step succeeding: the commit, and the project id returned
IndexProject(name, root_path, modules) ==
    LET session == SessionAfter(db, name, root_path, modules, Steps(modules))
        project_id == ResolveProject(db, name, root_path).project_id
    IN /\ WithinBounds(session)
       /\ db' = Commit(db, session)
       /\ latest' = Latest(latest, project_id, modules)
       /\ lastCall' = Some([name |-> name, root_path |-> root_path, modules |-> modules])
       /\ outcome' = [status |-> "returned", project_id |-> project_id,
                      step |-> Steps(modules)]
       /\ search' = None
       /\ reply' = None
       /\ sessions' = sessions + LeftOpen(IndexSessions(TRUE))
       /\ UNCHANGED <<clock, indexers>>

\* index_project, failing after its first k steps: the rollback, and the error raised
IndexProjectFails(name, root_path, modules, k) ==
    LET session == SessionAfter(db, name, root_path, modules, k)
    IN /\ db' = Rollback(db, session)
       /\ outcome' = [status |-> "raised", project_id |-> 0, step |-> k]
       /\ search' = None
       /\ reply' = None
       /\ sessions' = sessions + LeftOpen(IndexSessions(FALSE))
       /\ UNCHANGED <<latest, lastCall, clock, indexers>>

Next ==
    \E c \in Calls : IndexProject(c.name, c.root_path, c.modules)

Spec == Init /\ [][Next]_vars

\* the calls of the specification with failures: one file of /r1
FailCalls == {c \in Calls : \A i \in 1..Len(c.modules) : c.modules[i].path = "/r1/ab.py"}

FailNext ==
    \E c \in FailCalls :
       \/ IndexProject(c.name, c.root_path, c.modules)
       \/ \E k \in 0..Steps(c.modules) :
             IndexProjectFails(c.name, c.root_path, c.modules, k)

FailSpec == Init /\ [][FailNext]_vars

(***************************************************************************)
(* Text: str.lower, str.strip, re.match and SQL LIKE.                      *)
(***************************************************************************)
LowerCase == <<"a", "b", "c", "d", "e", "f", "g", "h", "i", "j", "k", "l", "m",
               "n", "o", "p", "q", "r", "s", "t", "u", "v", "w", "x", "y", "z">>
UpperCase == <<"A", "B", "C", "D", "E", "F", "G", "H", "I", "J", "K", "L", "M",
               "N", "O", "P", "Q", "R", "S", "T", "U", "V", "W", "X", "Y", "Z">>
Digits == {"0", "1", "2", "3", "4", "5", "6", "7", "8", "9"}

\* the characters \w matches
WordChars ==
    {LowerCase[i] : i \in 1..Len(LowerCase)} \cup {UpperCase[i] : i \in 1..Len(UpperCase)}
      \cup Digits \cup {"_"}

\* the characters str.strip() removes
Whitespace == {" ", "\t", "\n", "\r"}

LowerChar(c) ==
    IF \E i \in 1..Len(UpperCase) : UpperCase[i] = c
    THEN LowerCase[CHOOSE i \in 1..Len(UpperCase) : UpperCase[i] = c]
    ELSE c

\* str.lower() and SQL lower()
Lower(text) == [i \in 1..Len(text) |-> LowerChar(text[i])]

RECURSIVE LStrip(_)
LStrip(text) ==
    IF text # <<>> /\ Head(text) \in Whitespace THEN LStrip(Tail(text)) ELSE text

RECURSIVE RStrip(_)
RStrip(text) ==
    IF text # <<>> /\ text[Len(text)] \in Whitespace
    THEN RStrip(SubSeq(text, 1, Len(text) - 1))
    ELSE text

\* a strip of the leading whitespace only
StripLeft(text) == LStrip(text)

\* str.strip()
Strip(text) == RStrip(LStrip(text))

\* the length of the longest prefix of word characters: \w+ before a ':'
RECURSIVE WordPrefix(_)
WordPrefix(text) ==
    IF text # <<>> /\ Head(text) \in WordChars THEN 1 + WordPrefix(Tail(text)) ELSE 0

\* the length of the longest prefix without a line break: what .+ takes
RECURSIVE LinePrefix(_)
LinePrefix(text) ==
    IF text # <<>> /\ Head(text) # "\n" THEN 1 + LinePrefix(Tail(text)) ELSE 0

\* the groups of a pattern that lets the term be empty: (\w+):(.*)
MatchEmptyTerm(query) ==
    LET n == WordPrefix(query)
        rest == SubSeq(query, n + 2, Len(query))
    IN IF n >= 1 /\ Len(query) > n /\ query[n + 1] = ":"
       THEN Some([search_type |-> SubSeq(query, 1, n),
                  search_term |-> SubSeq(rest, 1, LinePrefix(rest))])
       ELSE None

\* re.match(r"(\w+):(.+)", query): its two groups, or None
Match(query) ==
    LET n == WordPrefix(query)
        rest == SubSeq(query, n + 2, Len(query))
    IN IF n >= 1 /\ Len(query) > n /\ query[n + 1] = ":" /\ LinePrefix(rest) >= 1
       THEN Some([search_type |-> SubSeq(query, 1, n),
                  search_term |-> SubSeq(rest, 1, LinePrefix(rest))])
       ELSE None

\* text LIKE pattern in SQLite: % is any run of characters, _ is any one
\* character, and letters compare without case
RECURSIVE Like(_, _)
Like(text, pattern) ==
    IF pattern = <<>> THEN text = <<>>
    ELSE IF Head(pattern) = "%"
         THEN Like(text, Tail(pattern)) \/ (text # <<>> /\ Like(Tail(text), pattern))
         ELSE /\ text # <<>>
              /\ Head(pattern) = "_" \/ LowerChar(Head(pattern)) = LowerChar(Head(text))
              /\ Like(Tail(text), Tail(pattern))

\* func.lower(column).like(pattern) on a NOT NULL column
LowerLike(column, pattern) == Like(Lower(column), pattern)

\* func.lower(column).like(pattern) on a nullable column: NULL matches nothing
NullableLowerLike(column, pattern) == column # None /\ Like(Lower(column[1]), pattern)

\* f"%{term.lower()}%"
Pattern(term) == <<"%">> \o Lower(term) \o <<"%">>

(***************************************************************************)
(* PySearch                                                                *)
(***************************************************************************)
\* the default of search_code's limit
DefaultLimit == 20
\* the default of _truncate_text's max_length, and the one given for a value
max_length == 200
value_max_length == 100

\* a truncation of the texts of max characters too
TruncateFromMax(text, max) ==
    IF text = None \/ text[1] = <<>> THEN None
    ELSE IF Len(text[1]) < max THEN text
         ELSE Some(SubSeq(text[1], 1, max) \o <<".", ".", ".">>)

\* _truncate_text
truncate_text(text, max) ==
    IF text = None \/ text[1] = <<>> THEN None
    ELSE IF Len(text[1]) <= max THEN text
         ELSE Some(SubSeq(text[1], 1, max) \o <<".", ".", ".">>)

\* the rows of a statement in rowid order
RECURSIVE ById(_)
ById(rows) ==
    IF rows = {} THEN <<>>
    ELSE LET r == First(rows) IN <<r>> \o ById(rows \ {r})

\* the rows of a statement that has no limit
ScalarsNoLimit(rows, limit) == ById(rows)

\* session.scalars(statement.limit(limit))
Scalars(rows, limit) ==
    LET all == ById(rows)
    IN SubSeq(all, 1, IF Len(all) < limit THEN Len(all) ELSE limit)

\* the relationship row.module
ModuleOf(s, row) == First({m \in s.modules : m.id = row.module_id})

\* base_filters left empty whatever the project id
ModuleFilterAll(s, project_id) == s.modules

\* base_filters on a statement over Module
ModuleFilter(s, project_id) ==
    {m \in s.modules : project_id = None \/ m.project_id = project_id[1]}

\* .join(Module) with base_filters
JoinFilter(s, rows, project_id) ==
    {r \in rows : \E m \in ModuleFilter(s, project_id) : m.id = r.module_id}

ModuleEntry(m) ==
    [id |-> m.id, name |-> m.name, path |-> m.path,
     docstring |-> truncate_text(m.docstring, max_length)]

ClassEntry(s, c) ==
    [id |-> c.id, name |-> c.name, module_name |-> ModuleOf(s, c).name,
     path |-> ModuleOf(s, c).path, lineno |-> c.lineno,
     docstring |-> truncate_text(c.docstring, max_length)]

\* a class name that is never looked up
ClassNameNone(s, f) == None

\* the name of the class of a function: the Class row with the id class_id
ClassName(s, f) ==
    LET parent == {c \in s.classes : f.class_id = Some(c.id)}
    IN IF f.class_id # None /\ f.class_id # Some(0) /\ parent # {}
       THEN Some(First(parent).name)
       ELSE None

FunctionEntry(s, f) ==
    [id |-> f.id, name |-> f.name, module_name |-> ModuleOf(s, f).name,
     class_name |-> ClassName(s, f), path |-> ModuleOf(s, f).path,
     lineno |-> f.lineno, docstring |-> truncate_text(f.docstring, max_length)]

VariableEntry(s, v) ==
    [id |-> v.id, name |-> v.name, module_name |-> ModuleOf(s, v).name,
     path |-> ModuleOf(s, v).path, lineno |-> v.lineno,
     value |-> truncate_text(v.value, value_max_length)]

\* an Optional in an f-string
Format(optional) == IF optional = None THEN <<"N", "o", "n", "e">> ELSE optional[1]

\* the entry of an import, put in the modules category
ImportEntry(s, i) ==
    LET alias == IF i.alias # None /\ i.alias[1] # <<>>
              THEN <<" ", "a", "s", " ">> \o i.alias[1] ELSE <<>>
        name == IF i.is_from_import
                THEN <<"f", "r", "o", "m", " ">> \o Format(i.parent_module)
                       \o <<" ", "i", "m", "p", "o", "r", "t", " ">> \o i.module_name \o alias
                ELSE <<"i", "m", "p", "o", "r", "t", " ">> \o i.module_name \o alias
    IN [id |-> i.module_id, name |-> name, path |-> ModuleOf(s, i).path,
        docstring |-> Some(<<"I", "m", "p", "o", "r", "t", " ", "i", "n", " ">>
                             \o ModuleOf(s, i).name)]

ModuleEntries(rows) == [k \in 1..Len(rows) |-> ModuleEntry(rows[k])]
ClassEntries(s, rows) == [k \in 1..Len(rows) |-> ClassEntry(s, rows[k])]
FunctionEntries(s, rows) == [k \in 1..Len(rows) |-> FunctionEntry(s, rows[k])]
VariableEntries(s, rows) == [k \in 1..Len(rows) |-> VariableEntry(s, rows[k])]
ImportEntries(s, rows) == [k \in 1..Len(rows) |-> ImportEntry(s, rows[k])]

\* results without its variables key
ThreeResults == [modules |-> <<>>, classes |-> <<>>, functions |-> <<>>]

\* results, as it is initialised
NoResults == [modules |-> <<>>, classes |-> <<>>, functions |-> <<>>, variables |-> <<>>]

\* _free_text_search
FreeTextSearch(s, query, project_id, limit) ==
    LET query_lower == Pattern(query)
    IN [modules |->
          ModuleEntries(Scalars(
            {m \in ModuleFilter(s, project_id) :
               LowerLike(m.name, query_lower)
                 \/ NullableLowerLike(m.docstring, query_lower)}, limit)),
        classes |->
          ClassEntries(s, Scalars(
            {c \in JoinFilter(s, s.classes, project_id) :
               LowerLike(c.name, query_lower)
                 \/ NullableLowerLike(c.docstring, query_lower)}, limit)),
        functions |->
          FunctionEntries(s, Scalars(
            {f \in JoinFilter(s, s.functions, project_id) :
               LowerLike(f.name, query_lower)
                 \/ NullableLowerLike(f.docstring, query_lower)}, limit)),
        variables |->
          VariableEntries(s, Scalars(
            {v \in JoinFilter(s, s.variables, project_id) :
               LowerLike(v.name, query_lower)}, limit))]

\* the search types of _structured_search
Kind_module == <<"m", "o", "d", "u", "l", "e">>
Kind_class == <<"c", "l", "a", "s", "s">>
Kind_function == <<"f", "u", "n", "c", "t", "i", "o", "n">>
Kind_method == <<"m", "e", "t", "h", "o", "d">>
Kind_var == <<"v", "a", "r">>
Kind_variable == <<"v", "a", "r", "i", "a", "b", "l", "e">>
Kind_import == <<"i", "m", "p", "o", "r", "t">>
Kind_doc == <<"d", "o", "c">>
Kind_docstring == <<"d", "o", "c", "s", "t", "r", "i", "n", "g">>

RecognizedKinds ==
    {Kind_module, Kind_class, Kind_function, Kind_method, Kind_var, Kind_variable,
     Kind_import, Kind_doc, Kind_docstring}

\* a fallback that searches the original query
FallbackWholeQuery(query, search_term) == query

\* what the fallback for an unknown search type searches: the term
FallbackText(query, search_term) == search_term

\* _structured_search
StructuredSearch(s, query, project_id, limit) ==
    LET match == Match(query)
    IN IF match = None THEN FreeTextSearch(s, query, project_id, limit)
       ELSE
         LET search_type == match[1].search_type
             search_term == Strip(match[1].search_term)
             search_term_lower == Pattern(search_term)
             modules ==
               {m \in ModuleFilter(s, project_id) : LowerLike(m.name, search_term_lower)}
             classes ==
               {c \in JoinFilter(s, s.classes, project_id) :
                  LowerLike(c.name, search_term_lower)}
             functions ==
               {f \in JoinFilter(s, s.functions, project_id) :
                  LowerLike(f.name, search_term_lower)}
             variables ==
               {v \in JoinFilter(s, s.variables, project_id) :
                  LowerLike(v.name, search_term_lower)}
             imports ==
               {i \in JoinFilter(s, s.imports, project_id) :
                  LowerLike(i.module_name, search_term_lower)
                    \/ NullableLowerLike(i.parent_module, search_term_lower)}
             docmodules ==
               {m \in ModuleFilter(s, project_id) :
                  NullableLowerLike(m.docstring, search_term_lower)}
             docclasses ==
               {c \in JoinFilter(s, s.classes, project_id) :
                  NullableLowerLike(c.docstring, search_term_lower)}
             docfunctions ==
               {f \in JoinFilter(s, s.functions, project_id) :
                  NullableLowerLike(f.docstring, search_term_lower)}
         IN CASE search_type = Kind_module ->
                   [NoResults EXCEPT !.modules = ModuleEntries(Scalars(modules, limit))]
              [] search_type = Kind_class ->
                   [NoResults EXCEPT !.classes = ClassEntries(s, Scalars(classes, limit))]
              [] search_type \in {Kind_function, Kind_method} ->
                   [NoResults EXCEPT
                      !.functions = FunctionEntries(s, Scalars(functions, limit))]
              [] search_type \in {Kind_var, Kind_variable} ->
                   [NoResults EXCEPT
                      !.variables = VariableEntries(s, Scalars(variables, limit))]
              [] search_type = Kind_import ->
                   [NoResults EXCEPT !.modules = ImportEntries(s, Scalars(imports, limit))]
              [] search_type \in {Kind_doc, Kind_docstring} ->
                   [NoResults EXCEPT
                      !.modules = ModuleEntries(Scalars(docmodules, limit)),
                      !.classes = ClassEntries(s, Scalars(docclasses, limit)),
                      !.functions = FunctionEntries(s, Scalars(docfunctions, limit))]
              [] OTHER ->
                   FreeTextSearch(s, FallbackText(query, search_term), project_id, limit)

\* search_code: ":" in query
search_code(s, query, project_id, limit) ==
    IF \E k \in 1..Len(query) : query[k] = ":"
    THEN StructuredSearch(s, query, project_id, limit)
    ELSE FreeTextSearch(s, query, project_id, limit)

\* the events of the session of _free_text_search
FreeTextSessions == <<"open", "close">>

\* a structured search whose return of the fallback skips the close
StructuredSessionsLeak(query) ==
    IF Match(query) = None THEN FreeTextSessions
    ELSE IF Match(query)[1].search_type \in RecognizedKinds THEN <<"open", "close">>
         ELSE <<"open">> \o FreeTextSessions

\* the events of the sessions of _structured_search: none of its own when the
\* pattern does not match, and the one of _free_text_search inside its own
\* for an unknown search type
StructuredSessions(query) ==
    IF Match(query) = None THEN FreeTextSessions
    ELSE IF Match(query)[1].search_type \in RecognizedKinds THEN <<"open", "close">>
         ELSE <<"open">> \o FreeTextSessions \o <<"close">>

\* the events of the sessions of search_code
SearchSessions(query) ==
    IF \E k \in 1..Len(query) : query[k] = ":"
    THEN StructuredSessions(query)
    ELSE FreeTextSessions

\* search_code on the catalog; the call and what it returned are kept in search
SearchCode(query, project_id, limit) ==
    /\ search' = Some([query |-> query, project_id |-> project_id, limit |-> limit,
                       result |-> search_code(db, query, project_id, limit)])
    /\ sessions' = sessions + LeftOpen(SearchSessions(query))
    /\ UNCHANGED <<db, latest, lastCall, outcome, reply, clock, indexers>>

(***************************************************************************)
(* The specification of the searches: two projects are indexed, and the    *)
(* catalog is searched between two calls of the indexer.                   *)
(***************************************************************************)
\* a description with a docstring, a plain import and one function
SmallBody ==
    [docstring |-> Some(<<"a", "a", "b">>),
     imports |-> << ImportInfo(<<"a", "a", "b">>, None, FALSE, None) >>,
     functions |-> << FunctionInfo(<<"a", "b">>, None, 1, 2) >>,
     classes |-> <<>>, variables |-> <<>>]

SearchCalls ==
    {[name |-> "n1", root_path |-> "/r1", modules |-> << ModuleInfo("/r1/ab.py", b) >>]
        : b \in Bodies}
      \cup {[name |-> "n2", root_path |-> "/r2",
             modules |-> << ModuleInfo("/r2/ab.py", SmallBody) >>]}

\* the terms: one with an upper-case letter, one found in docstrings only, one
\* with a LIKE wildcard, and one with surrounding whitespace
Terms == {<<"A", "b">>, <<"b", "a">>, <<"a", "_", "b">>, <<" ", "a", "b", " ">>}

Kind_bogus == <<"b", "o", "g", "u", "s">>
Kind_Class == <<"C", "l", "a", "s", "s">>

UnknownKinds == {Kind_bogus, Kind_Class}

\* kind:term for every kind and term, the terms alone, and the queries with a
\* ':' that the pattern does not match or cuts at a line break
Queries ==
    {kind \o <<":">> \o term : kind \in RecognizedKinds \cup UnknownKinds, term \in Terms}
      \cup Terms
      \cup {<<":", "a">>, Kind_class \o <<":">>, <<"a", " ", "b", ":", "a">>,
            Kind_bogus \o <<":", "A", "b", "\n", "b">>}

ProjectFilters == {None, Some(1)}

Limits == {1, DefaultLimit}

\* A search leaves the catalog as it is, so a search made after another one
\* returns what it returns after the indexer's call: one search is made between
\* two calls of the indexer.
SearchNext ==
    \/ \E c \in SearchCalls : IndexProject(c.name, c.root_path, c.modules)
    \/ \E query \in Queries, project_id \in ProjectFilters, limit \in Limits :
          search = None /\ SearchCode(query, project_id, limit)

SearchSpec == Init /\ [][SearchNext]_vars

(***************************************************************************)
(* What a module's rows hold, ids aside, and what a description describes. *)
(***************************************************************************)
\* a Function row without its ids; its class is named in place of class_id
FunctionContent(s, f) ==
    [name |-> f.name, docstring |-> f.docstring, lineno |-> f.lineno,
     end_lineno |-> f.end_lineno, args |-> f.args, decorators |-> f.decorators,
     return_annotation |-> f.return_annotation,
     method |-> f.class_id # None,
     class |-> {c.name : c \in {x \in s.classes : f.class_id = Some(x.id)}}]

ClassContent(c) ==
    [name |-> c.name, docstring |-> c.docstring, lineno |-> c.lineno,
     end_lineno |-> c.end_lineno, base_classes |-> c.base_classes,
     decorators |-> c.decorators]

ImportContent(i) ==
    [module_name |-> i.module_name, alias |-> i.alias,
     is_from_import |-> i.is_from_import, parent_module |-> i.parent_module]

VariableContent(v) == [name |-> v.name, lineno |-> v.lineno, value |-> v.value]

\* the number and the content of the rows whose module_id is module_id
ModuleContent(s, module_id) ==
    LET fs == {f \in s.functions : f.module_id = module_id}
        cs == {c \in s.classes : c.module_id = module_id}
        is == {i \in s.imports : i.module_id = module_id}
        vs == {v \in s.variables : v.module_id = module_id}
    IN [functions |-> {FunctionContent(s, f) : f \in fs}, nfunctions |-> Cardinality(fs),
        classes |-> {ClassContent(c) : c \in cs}, nclasses |-> Cardinality(cs),
        imports |-> {ImportContent(i) : i \in is}, nimports |-> Cardinality(is),
        variables |-> {VariableContent(v) : v \in vs}, nvariables |-> Cardinality(vs)]

DescribedFunction(f, method, class) ==
    [name |-> f.name, docstring |-> f.docstring, lineno |-> f.lineno,
     end_lineno |-> f.end_lineno, args |-> JsonDumps(f.args),
     decorators |-> JsonDumps(f.decorators),
     return_annotation |-> f.return_annotation, method |-> method, class |-> class]

RECURSIVE SumLen(_)
SumLen(seqs) == IF seqs = <<>> THEN 0 ELSE Len(Head(seqs)) + SumLen(Tail(seqs))

\* the rows a description describes, ids aside
Described(d) ==
    [functions |->
       {DescribedFunction(d.functions[i], FALSE, {}) : i \in 1..Len(d.functions)}
         \cup UNION {{DescribedFunction(d.classes[j].methods[i], TRUE, {d.classes[j].name})
                        : i \in 1..Len(d.classes[j].methods)} : j \in 1..Len(d.classes)},
     nfunctions |-> Len(d.functions)
                      + SumLen([j \in 1..Len(d.classes) |-> d.classes[j].methods]),
     classes |-> {[name |-> d.classes[j].name, docstring |-> d.classes[j].docstring,
                   lineno |-> d.classes[j].lineno, end_lineno |-> d.classes[j].end_lineno,
                   base_classes |-> JsonDumps(d.classes[j].base_classes),
                   decorators |-> JsonDumps(d.classes[j].decorators)]
                    : j \in 1..Len(d.classes)},
     nclasses |-> Len(d.classes),
     imports |-> {d.imports[i] : i \in 1..Len(d.imports)},
     nimports |-> Len(d.imports),
     variables |-> {[name |-> d.variables[i].name, lineno |-> d.variables[i].lineno,
                     value |-> Some(d.variables[i].value)] : i \in 1..Len(d.variables)},
     nvariables |-> Len(d.variables)]

\* this step is a call of index_project that returned
Returned == outcome'.status = "returned" /\ lastCall' # None

\* this step is a returned call with the root path and the list of the call before
Repeated ==
    /\ Returned
    /\ lastCall # None
    /\ lastCall'[1].root_path = lastCall[1].root_path
    /\ lastCall'[1].modules = lastCall[1].modules

\* the module rows of the project and the paths of the call that just returned
Indexed(s) ==
    {m \in s.modules :
       /\ m.project_id = outcome'.project_id
       /\ \E i \in 1..Len(lastCall'[1].modules) : lastCall'[1].modules[i].path = m.path}

(***************************************************************************)
(* The claims.                                                             *)
(***************************************************************************)
\* C1: index_project called twice in a row with the same root path and the same
\* descriptions leaves, after the second call, the same number and the same
\* content of Function, Class, Import and Variable rows for each module of the
\* call as after the first call.
C1_IdempotentReindex ==
    [][Repeated =>
         \A m \in Indexed(db) : ModuleContent(db', m.id) = ModuleContent(db, m.id)]_vars

\* C2: for every Module, the rows whose module_id is that Module are exactly the
\* rows described by the description most recently indexed for its path.
C2_ReindexReplaces ==
    \A m \in db.modules :
       \E e \in latest :
          /\ e.project_id = m.project_id
          /\ e.path = m.path
          /\ ModuleContent(db, m.id) = Described(e.module_info)

\* C3: every Function row with a class_id refers to an existing Class row, and
\* that Class row has the Function's module_id.
C3_MethodIntegrity ==
    \A f \in db.functions :
       f.class_id # None =>
          \E c \in db.classes : f.class_id = Some(c.id) /\ c.module_id = f.module_id

\* C4: at most one Project row exists per root_path, and a call with a root path
\* that is already indexed returns the existing project's id and adds no Project
\* row, whatever name it gives.
C4_ProjectUniqueness ==
    /\ [](\A p, q \in db.projects : p.root_path = q.root_path => p = q)
    /\ [][Returned =>
            \A p \in db.projects :
               p.root_path = lastCall'[1].root_path =>
                  outcome'.project_id = p.id /\ db'.projects = db.projects]_vars

\* a call with an indexed root path and another name than the project's has returned
C4_Witness ==
    /\ outcome.status = "returned"
    /\ lastCall # None
    /\ \E p \in db.projects :
          /\ p.id = outcome.project_id
          /\ p.root_path = lastCall[1].root_path
          /\ p.name # lastCall[1].name
    /\ Cardinality(db.projects) = 2

\* C5: at most one Module row exists per (project_id, path), also after a call
\* whose list names one path twice, and a Module row keeps its id, its project
\* and its path when its path is indexed again.
C5_ModuleUniqueness ==
    /\ [](\A m, n \in db.modules :
            m.project_id = n.project_id /\ m.path = n.path => m = n)
    /\ [][\A m \in db.modules :
            \E n \in db'.modules :
               n.id = m.id /\ n.project_id = m.project_id /\ n.path = m.path]_vars

\* a call whose list names one path twice has returned, beside another module
C5_Witness ==
    /\ outcome.status = "returned"
    /\ lastCall # None
    /\ Len(lastCall[1].modules) = 2
    /\ lastCall[1].modules[1].path = lastCall[1].modules[2].path
    /\ \E m \in db.modules :
          m.project_id = outcome.project_id /\ m.path = lastCall[1].modules[1].path
    /\ Cardinality(db.modules) = 2

\* C6: a call of index_project that fails, at whatever step, raises the error and
\* leaves the committed catalog as it was before the call.
C6_Atomicity ==
    [][outcome'.status = "raised" => db' = db]_vars

\* a call has failed between the clearing of a module that has rows and its inserts
C6_Witness ==
    /\ outcome.status = "raised"
    /\ outcome.step = 2
    /\ db.functions # {}
    /\ db.classes # {}

(***************************************************************************)
(* PySearch.get_file_content and PySearch.get_projects                     *)
(***************************************************************************)
\* a lookup that takes every Module row, whatever its path
FindModuleAny(s, path) == s.modules

\* select(Module).filter_by(path=path): the comparison is of the whole string
FindModule(s, path) == {m \in s.modules : m.path = path}

\* what f.read() returns for a file that can be read
FileText(path) == <<"t", "e", "x", "t", " ", "o", "f", " ">> \o <<path>>

\* the exception of an open() or a read() that fails, as the f-string shows it
ReadError(path) == <<"E", "r", "r", "n", "o", " ">> \o <<path>>

\* f"Error reading file: {e}"
ErrorContent(path) ==
    <<"E", "r", "r", "o", "r", " ", "r", "e", "a", "d", "i", "n", "g", " ",
      "f", "i", "l", "e", ":", " ">> \o ReadError(path)

FunctionElement(f) ==
    [type |-> "function", name |-> f.name, lineno |-> f.lineno,
     end_lineno |-> f.end_lineno, docstring |-> f.docstring]

ClassElement(c) ==
    [type |-> "class", name |-> c.name, lineno |-> c.lineno,
     end_lineno |-> c.end_lineno, docstring |-> c.docstring]

MethodElement(c, f) ==
    [type |-> "method", name |-> c.name \o <<".">> \o f.name, lineno |-> f.lineno,
     end_lineno |-> f.end_lineno, docstring |-> f.docstring]

VariableElement(v) ==
    [type |-> "variable", name |-> v.name, lineno |-> v.lineno, value |-> v.value]

\* each class followed by its methods: the Function rows with its id as class_id
RECURSIVE ClassElements(_, _)
ClassElements(s, classes) ==
    IF classes = <<>> THEN <<>>
    ELSE LET c == Head(classes)
             methods == ById({f \in s.functions : f.class_id = Some(c.id)})
         IN <<ClassElement(c)>>
              \o [k \in 1..Len(methods) |-> MethodElement(c, methods[k])]
              \o ClassElements(s, Tail(classes))

\* elements before the sort: the top-level functions, the classes with their
\* methods, the variables
FileElements(s, module) ==
    LET functions ==
          ById({f \in s.functions : f.module_id = module.id /\ f.class_id = None})
        variables == ById({v \in s.variables : v.module_id = module.id})
    IN [k \in 1..Len(functions) |-> FunctionElement(functions[k])]
         \o ClassElements(s, ById({c \in s.classes : c.module_id = module.id}))
         \o [k \in 1..Len(variables) |-> VariableElement(variables[k])]

\* the element put behind the elements whose lineno is at most its own
RECURSIVE InsertByLineno(_, _)
InsertByLineno(sorted, element) ==
    IF sorted = <<>> THEN <<element>>
    ELSE IF Head(sorted).lineno <= element.lineno
         THEN <<Head(sorted)>> \o InsertByLineno(Tail(sorted), element)
         ELSE <<element>> \o sorted

\* elements left as they were enumerated
Unsorted(elements) == elements

\* elements.sort(key=lineno): list.sort is stable
RECURSIVE SortByLineno(_)
SortByLineno(elements) ==
    IF elements = <<>> THEN <<>>
    ELSE InsertByLineno(SortByLineno(SubSeq(elements, 1, Len(elements) - 1)),
                        elements[Len(elements)])

\* a get_file_content that lists no element when the read fails
GetFileContentAbort(s, path, readable) ==
    IF FindModule(s, path) = {} THEN None
    ELSE Some([content |-> IF readable THEN FileText(path) ELSE ErrorContent(path),
               elements |-> IF readable
                            THEN SortByLineno(FileElements(s, First(FindModule(s, path))))
                            ELSE <<>>])

\* get_file_content: None, or the content and the elements; readable is whether
\* the file system lets the file be read
get_file_content(s, path, readable) ==
    IF FindModule(s, path) = {} THEN None
    ELSE Some([content |-> IF readable THEN FileText(path) ELSE ErrorContent(path),
               elements |-> SortByLineno(FileElements(s, First(FindModule(s, path))))])

\* a count of the Module rows of every project
FileCountAll(s, project) == Cardinality(s.modules)

\* select(func.count()).select_from(Module).filter_by(project_id=project.id)
FileCount(s, project) == Cardinality({m \in s.modules : m.project_id = project.id})

\* datetime.isoformat(): the text of a time
isoformat(time) == <<"T", time>>

\* get_projects: one entry per Project row
get_projects(s) ==
    LET projects == ById(s.projects)
    IN [k \in 1..Len(projects) |->
          [id |-> projects[k].id, name |-> projects[k].name,
           root_path |-> projects[k].root_path,
           file_count |-> FileCount(s, projects[k]),
           created_at |-> isoformat(projects[k].created_at),
           updated_at |-> isoformat(projects[k].updated_at)]]

\* the events of the session of get_file_content, on its two returns
FileSessions(found) == IF found THEN <<"open", "read", "close">> ELSE <<"open", "close">>

\* the events of the session of get_projects
ProjectsSessions == <<"open", "close">>

\* a get_file_content that stamps the module it found and commits
GetFileContentStamps(path, readable) ==
    /\ reply' = Some([op |-> "get_file_content", path |-> path, readable |-> readable,
                      opened |-> FindModule(db, path) # {},
                      result |-> get_file_content(db, path, readable)])
    /\ db' = IF FindModule(db, path) = {} THEN db
             ELSE [db EXCEPT !.modules =
                     {IF m.path = path THEN [m EXCEPT !.last_indexed = clock + 1] ELSE m
                        : m \in @}]
    /\ sessions' = sessions + LeftOpen(FileSessions(FindModule(db, path) # {}))
    /\ UNCHANGED <<latest, lastCall, outcome, search, clock, indexers>>

\* get_file_content on the catalog; opened is whether open(path) was called
GetFileContent(path, readable) ==
    /\ reply' = Some([op |-> "get_file_content", path |-> path, readable |-> readable,
                      opened |-> FindModule(db, path) # {},
                      result |-> get_file_content(db, path, readable)])
    /\ sessions' = sessions + LeftOpen(FileSessions(FindModule(db, path) # {}))
    /\ UNCHANGED <<db, latest, lastCall, outcome, search, clock, indexers>>

GetProjects ==
    /\ reply' = Some([op |-> "get_projects", result |-> get_projects(db)])
    /\ sessions' = sessions + LeftOpen(ProjectsSessions)
    /\ UNCHANGED <<db, latest, lastCall, outcome, search, clock, indexers>>

(***************************************************************************)
(* The specification of the views: files of two projects are indexed, and  *)
(* a file or the list of the projects is asked for.                        *)
(***************************************************************************)
\* a description with a variable on line 1, and a function and a variable on line 2
TieBody ==
    [docstring |-> None, imports |-> <<>>,
     functions |-> << FunctionInfo(<<"a", "b">>, None, 2, 2) >>,
     classes |-> <<>>,
     variables |-> << [name |-> <<"a", "b">>, lineno |-> 1, value |-> <<"a">>],
                      [name |-> <<"b", "a">>, lineno |-> 2, value |-> <<"a">>] >>]

ViewCalls ==
    {[name |-> "n1", root_path |-> "/r1", modules |-> << ModuleInfo("/r1/ab.py", b) >>]
        : b \in {EmptyBody, FullBody, TieBody}}
      \cup {[name |-> "n1", root_path |-> "/r1",
             modules |-> << ModuleInfo("/r1/aab.py", EmptyBody) >>],
            [name |-> "n2", root_path |-> "/r2", modules |-> <<>>],
            [name |-> "n2", root_path |-> "/r2",
             modules |-> << ModuleInfo("/r2/ab.py", SmallBody) >>]}

\* the paths asked for: the three that are indexed and one that never is
ViewPaths == {"/r1/ab.py", "/r1/aab.py", "/r2/ab.py", "/r1/AB.py"}

ViewNext ==
    \/ \E c \in ViewCalls : IndexProject(c.name, c.root_path, c.modules)
    \/ \E path \in ViewPaths, readable \in BOOLEAN : GetFileContent(path, readable)
    \/ GetProjects

ViewSpec == Init /\ [][ViewNext]_vars

(***************************************************************************)
(* The specification of the timestamps: time passes between the calls of   *)
(* the indexer, up to MaxTime.                                             *)
(***************************************************************************)
MaxTime == 3

\* the clock of the machine advances
Tick ==
    /\ clock < MaxTime
    /\ clock' = clock + 1
    /\ UNCHANGED <<db, latest, lastCall, outcome, search, reply, sessions, indexers>>

ClockCalls ==
    {[name |-> "n1", root_path |-> "/r1", modules |-> ms] :
        ms \in {<<>>, << ModuleInfo("/r1/ab.py", EmptyBody) >>,
                << ModuleInfo("/r1/aab.py", EmptyBody) >>,
                << ModuleInfo("/r1/ab.py", FullBody), ModuleInfo("/r1/aab.py", EmptyBody) >>}}
      \cup {[name |-> "n2", root_path |-> "/r2", modules |-> <<>>]}

ClockNext ==
    \/ \E c \in ClockCalls : IndexProject(c.name, c.root_path, c.modules)
    \/ Tick

ClockSpec == Init /\ [][ClockNext]_vars

(***************************************************************************)
(* The specification of the operations together: calls of the indexer that *)
(* return or fail, searches in every mode, file views and project lists,   *)
(* in any order.                                                           *)
(***************************************************************************)
\* calls that create two projects, index two files of one project, and
\* re-index a file of an existing project under another name and with another
\* docstring
OpsCalls ==
    {[name |-> "n1", root_path |-> "/r1", modules |-> << ModuleInfo("/r1/ab.py", FullBody) >>],
     [name |-> "n2", root_path |-> "/r1", modules |-> << ModuleInfo("/r1/ab.py", EmptyBody) >>],
     [name |-> "n1", root_path |-> "/r1", modules |-> << ModuleInfo("/r1/aab.py", SmallBody) >>],
     [name |-> "n2", root_path |-> "/r2", modules |-> << ModuleInfo("/r2/ab.py", SmallBody) >>],
     [name |-> "n1", root_path |-> "/r1", modules |-> <<>>]}

\* a free-text query, one of a recognized kind, one of an unknown kind, and one
\* with a ':' that the pattern does not match
OpsQueries ==
    {<<"a", "b">>, Kind_import \o <<":", "b", "a">>, Kind_bogus \o <<":", "a", "b">>,
     <<":", "a">>}

\* an indexed path and one that never is
OpsPaths == {"/r1/ab.py", "/r1/AB.py"}

OpsNext ==
    \/ \E c \in OpsCalls : IndexProject(c.name, c.root_path, c.modules)
    \/ \E c \in OpsCalls :
          \E k \in 0..Steps(c.modules) :
             IndexProjectFails(c.name, c.root_path, c.modules, k)
    \/ \E query \in OpsQueries : SearchCode(query, None, DefaultLimit)
    \/ \E path \in OpsPaths, readable \in BOOLEAN : GetFileContent(path, readable)
    \/ GetProjects

OpsSpec == Init /\ [][OpsNext]_vars

(***************************************************************************)
(* The specification of the race: two callers of index_project, each with  *)
(* its own session on the same database file, index the root path /r1 of   *)
(* an empty catalog. The lookup of the project is a read outside every     *)
(* transaction; the first INSERT takes the write lock of the database,     *)
(* which the commit or the rollback releases.                              *)
(***************************************************************************)
\* the lists of the racing calls: one file, without or with rows, or no file
RaceLists ==
    {<<>>, << ModuleInfo("/r1/ab.py", EmptyBody) >>, << ModuleInfo("/r1/ab.py", SmallBody) >>,
     << ModuleInfo("/r1/ab.py", SmallBody), ModuleInfo("/r1/ab.py", EmptyBody) >>}

\* session.add(project); session.flush(): the INSERT of the Project row
CreateProject(s, name, root_path) ==
    LET id == NextId(s.projects)
    IN [db |-> [s EXCEPT !.projects =
                    @ \cup {[id |-> id, name |-> name, root_path |-> root_path,
                             created_at |-> clock, updated_at |-> clock]}],
        project_id |-> id]

\* the Project row with the root path, or None
LookupProject(s, root_path) ==
    LET found == {p \in s.projects : p.root_path = root_path}
    IN IF found = {} THEN None ELSE Some(First(found).id)

\* a project looked up again once the write lock is held
FoundUnderLock(i) == LookupProject(db, indexers[i].call.root_path)

\* the project that the caller goes on with: the one its lookup returned
FoundProject(i) == indexers[i].found

\* some caller holds the write lock
Locked == \E i \in Indexers : indexers[i].pc = "flushed"

\* the session is created and the project is looked up
RaceLookup(i, name, modules) ==
    /\ indexers[i].pc = "idle"
    /\ indexers' = [indexers EXCEPT ![i] =
                      [pc |-> "looked",
                       call |-> [name |-> name, root_path |-> "/r1", modules |-> modules],
                       found |-> LookupProject(db, "/r1"),
                       session |-> None, project_id |-> 0]]
    /\ sessions' = sessions + 1
    /\ UNCHANGED <<db, latest, lastCall, outcome, search, reply, clock>>

\* the project is created unless the lookup found it, and the modules are
\* indexed, in a transaction that holds the write lock
RaceFlush(i) ==
    LET call == indexers[i].call
        p == IF FoundProject(i) # None
             THEN [db |-> db, project_id |-> FoundProject(i)[1]]
             ELSE CreateProject(db, call.name, call.root_path)
    IN /\ indexers[i].pc = "looked"
       /\ ~Locked
       /\ indexers' = [indexers EXCEPT ![i] =
                         [@ EXCEPT !.pc = "flushed",
                                   !.session = Some(IndexModules(p.db, p.project_id,
                                                                 call.modules,
                                                                 2 * Len(call.modules))),
                                   !.project_id = p.project_id]]
       /\ UNCHANGED <<db, latest, lastCall, outcome, search, reply, clock, sessions>>

\* the INSERT waits for the write lock that the other caller holds, and gives
\* up: the exception is raised after the rollback, and the session is closed
RaceLocked(i) ==
    /\ indexers[i].pc = "looked"
    /\ Locked
    /\ indexers' = [indexers EXCEPT ![i] = [@ EXCEPT !.pc = "failed"]]
    /\ outcome' = [status |-> "raised", project_id |-> 0, step |-> 1]
    /\ sessions' = sessions - 1
    /\ UNCHANGED <<db, latest, lastCall, search, reply, clock>>

\* session.commit(), the return of the project id, and session.close()
RaceCommit(i) ==
    /\ indexers[i].pc = "flushed"
    /\ db' = Commit(db, indexers[i].session[1])
    /\ latest' = Latest(latest, indexers[i].project_id, indexers[i].call.modules)
    /\ lastCall' = Some(indexers[i].call)
    /\ outcome' = [status |-> "returned", project_id |-> indexers[i].project_id,
                   step |-> Steps(indexers[i].call.modules)]
    /\ indexers' = [indexers EXCEPT ![i] = [@ EXCEPT !.pc = "done"]]
    /\ sessions' = sessions - 1
    /\ UNCHANGED <<search, reply, clock>>

RaceNext ==
    \E i \in Indexers :
       \/ \E modules \in RaceLists :
             RaceLookup(i, IF i = 1 THEN "n1" ELSE "n2", modules)
       \/ RaceFlush(i)
       \/ RaceLocked(i)
       \/ RaceCommit(i)

RaceSpec == Init /\ [][RaceNext]_vars

(***************************************************************************)
(* The specification of _truncate_text: a docstring or a value of up to     *)
(* MaxTextLen characters is drawn, and truncated as its field is.           *)
(***************************************************************************)
MaxTextLen == 250

\* a text of n characters: a up to the 100th, b up to the 200th, c after it
TextOfLen(n) ==
    [k \in 1..n |-> IF k <= 100 THEN "a" ELSE IF k <= 200 THEN "b" ELSE "c"]

Texts == {None} \cup {Some(TextOfLen(n)) : n \in 0..MaxTextLen}

\* the max_length of the calls of _truncate_text: 100 for the value of a
\* variable, the default for a docstring
MaxLengthOf(field) == IF field = "value" THEN value_max_length ELSE max_length

TruncateInit ==
    /\ db = EmptyCatalog
    /\ latest = {}
    /\ lastCall = None
    /\ outcome = [status |-> "none", project_id |-> 0, step |-> 0]
    /\ search = None
    /\ clock = StartTime
    /\ sessions = 0
    /\ indexers = [i \in Indexers |-> [pc |-> "idle"]]
    /\ \E field \in {"docstring", "value"}, text \in Texts :
          reply = Some([op |-> "_truncate_text", field |-> field, text |-> text,
                        returned |-> FALSE, result |-> None])

\* the call of _truncate_text on the text drawn
TruncateText ==
    /\ reply # None
    /\ reply[1].op = "_truncate_text"
    /\ ~reply[1].returned
    /\ reply' = Some([reply[1] EXCEPT
                        !.returned = TRUE,
                        !.result = truncate_text(reply[1].text,
                                                 MaxLengthOf(reply[1].field))])
    /\ UNCHANGED <<db, latest, lastCall, outcome, search, clock, sessions, indexers>>

TruncateSpec == TruncateInit /\ [][TruncateText]_vars

(***************************************************************************)
(* What the claims about the searches speak of.                            *)
(***************************************************************************)
\* sub occurs in text
Contains(text, sub) ==
    \E k \in 0..(Len(text) - Len(sub)) : SubSeq(text, k + 1, k + Len(sub)) = sub

\* text without its leading and trailing whitespace
Trim(text) ==
    LET keep == {k \in 1..Len(text) : text[k] \notin {" ", "\t", "\n", "\r"}}
    IN IF keep = {} THEN <<>>
       ELSE SubSeq(text, CHOOSE k \in keep : \A j \in keep : k <= j, MaxOf(keep))

HasColon(query) == \E k \in 1..Len(query) : query[k] = ":"

\* the text before the first ':' of a query that has one
BeforeColon(query) ==
    SubSeq(query, 1, (CHOOSE k \in 1..Len(query) :
                        query[k] = ":" /\ \A j \in 1..(k - 1) : query[j] # ":") - 1)

\* the query has the form: word characters, ':', at least one more character
HasForm(query) ==
    \E n \in 1..(Len(query) - 2) :
       /\ \A k \in 1..n : query[k] \in WordChars
       /\ query[n + 1] = ":"

\* the ids of the entries of a category of the result
EntryIds(entries) == {entries[k].id : k \in 1..Len(entries)}

\* the rows whose module passes the project filter of the search
InProject(rows) ==
    {r \in rows : \E m \in db.modules :
        /\ m.id = r.module_id
        /\ search[1].project_id \in {None, Some(m.project_id)}}

\* the category is filled with rows whose name contains the term, with all of
\* them when they are fewer than the limit, and the other categories are empty
ByNameOnly(category, rows, term) ==
    LET result == search[1].result
        named == {r \in rows : Contains(Lower(r.name), Lower(Trim(term)))}
    IN /\ EntryIds(result[category]) \subseteq Ids(named)
       /\ Len(result[category]) < search[1].limit => EntryIds(result[category]) = Ids(named)
       /\ \A other \in {"modules", "classes", "functions", "variables"} \ {category} :
             result[other] = <<>>

\* C7: for a query kind:term with the kind module, class, function, method, var
\* or variable, the result holds, in the category of the kind only, the rows
\* whose name contains the trimmed term as a substring, case aside, and every
\* other category is empty.
C7_StructuredDispatch ==
    search # None =>
       \A term \in Terms :
          /\ search[1].query = Kind_module \o <<":">> \o term =>
                ByNameOnly("modules",
                           {m \in db.modules :
                              search[1].project_id \in {None, Some(m.project_id)}}, term)
          /\ search[1].query = Kind_class \o <<":">> \o term =>
                ByNameOnly("classes", InProject(db.classes), term)
          /\ search[1].query \in {Kind_function \o <<":">> \o term,
                                  Kind_method \o <<":">> \o term} =>
                ByNameOnly("functions", InProject(db.functions), term)
          /\ search[1].query \in {Kind_var \o <<":">> \o term,
                                  Kind_variable \o <<":">> \o term} =>
                ByNameOnly("variables", InProject(db.variables), term)

\* C8: for a query that the pattern splits into a kind and a term, with a kind
\* that is none of module, class, function, method, var, variable, import, doc,
\* docstring, search_code returns what the free-text search of the trimmed term
\* returns on the same catalog with the same project id and limit.
C8_UnknownKindFallback ==
    search # None /\ Match(search[1].query) # None
       /\ Match(search[1].query)[1].search_type \notin RecognizedKinds =>
          search[1].result =
             FreeTextSearch(db, Trim(Match(search[1].query)[1].search_term),
                            search[1].project_id, search[1].limit)

\* a search of "bogus: ab " has returned the module named ab
C8_Witness ==
    /\ search # None
    /\ search[1].query = Kind_bogus \o <<":", " ", "a", "b", " ">>
    /\ search[1].result.modules # <<>>
    /\ search[1].result.modules[1].name = <<"a", "b">>

\* C9, as stated: when the text before the ':' is not a recognized kind, the
\* result is that of the free-text search of the whole original query.
C9_WholeQueryFallback ==
    search # None /\ HasColon(search[1].query)
       /\ BeforeColon(search[1].query) \notin RecognizedKinds =>
          search[1].result =
             FreeTextSearch(db, search[1].query, search[1].project_id, search[1].limit)

\* C9, amended: when the text before the ':' is not a recognized kind, the
\* result is that of the free-text search of the trimmed term alone if the
\* pattern matches the query (word characters, ':', a term), and of the whole
\* original query only if the pattern does not match.
C9_TermOrWholeQueryFallback ==
    search # None /\ HasColon(search[1].query)
       /\ BeforeColon(search[1].query) \notin RecognizedKinds =>
          search[1].result =
             FreeTextSearch(db,
                            IF Match(search[1].query) # None
                            THEN Trim(Match(search[1].query)[1].search_term)
                            ELSE search[1].query,
                            search[1].project_id, search[1].limit)

\* a search of "Class:ba" has returned the class that has ba in its docstring
\* and not in its name
C9_Witness ==
    /\ search # None
    /\ search[1].query = Kind_Class \o <<":", "b", "a">>
    /\ search[1].result.classes # <<>>
    /\ ~Contains(Lower(search[1].result.classes[1].name), <<"b", "a">>)

\* C10: a query without ':', and a query with a ':' that does not have the form
\* word characters, ':', at least one more character, is answered with the
\* result of the free-text search of the whole query.
C10_QueryModeDispatch ==
    search # None /\ ~HasForm(search[1].query) =>
       search[1].result =
          FreeTextSearch(db, search[1].query, search[1].project_id, search[1].limit)

\* a search of ":a" has returned the method that has :a in its docstring
C10_Witness ==
    /\ search # None
    /\ search[1].query = <<":", "a">>
    /\ search[1].result.functions # <<>>
    /\ search[1].result.functions[1].docstring = Some(<<":", "a">>)

\* the Module rows that pass the project filter of the search
ProjectModules ==
    {m \in db.modules : search[1].project_id \in {None, Some(m.project_id)}}

\* the query occurs in the name of the row, case aside
InName(row) == Contains(Lower(row.name), Lower(search[1].query))

\* the row has a docstring and the query occurs in it, case aside
InDocstring(row) ==
    row.docstring # None /\ Contains(Lower(row.docstring[1]), Lower(search[1].query))

\* the entries of the category are rows of matching, and all of them when they
\* are fewer than the limit
Returns(category, matching) ==
    /\ EntryIds(search[1].result[category]) \subseteq Ids(matching)
    /\ Len(search[1].result[category]) < search[1].limit =>
          EntryIds(search[1].result[category]) = Ids(matching)

\* C11: the free-text search of a query returns a Module, Class or Function row
\* iff the lower-cased query is a substring of its lower-cased name or of its
\* lower-cased docstring, and a Variable row iff it is a substring of its
\* lower-cased name, within the project filter and the limit.
C11_FreeTextFields ==
    search # None /\ ~HasColon(search[1].query) =>
       /\ Returns("modules", {m \in ProjectModules : InName(m) \/ InDocstring(m)})
       /\ Returns("classes", {c \in InProject(db.classes) : InName(c) \/ InDocstring(c)})
       /\ Returns("functions",
                  {f \in InProject(db.functions) : InName(f) \/ InDocstring(f)})
       /\ Returns("variables", {v \in InProject(db.variables) : InName(v)})

Categories == {"modules", "classes", "functions", "variables"}

\* C12: each of the four categories of a result holds at most limit entries,
\* whatever the query and however many entries the other categories hold.
C12_PerCategoryCap ==
    search # None =>
       \A category \in Categories : Len(search[1].result[category]) <= search[1].limit

\* a search with limit 1 has returned one entry in each of the four categories,
\* four in all, while two functions match
C12_Witness ==
    /\ search # None
    /\ search[1].limit = 1
    /\ \A category \in Categories : Len(search[1].result[category]) = 1
    /\ Cardinality({f \in InProject(db.functions) : InName(f)}) = 2

\* the rows of a table that an entry of a category can be built from: an entry
\* of modules is built from a Module row or from an Import row of that module
OwnersOf(category, id) ==
    CASE category = "modules" -> {m \in db.modules : m.id = id}
      [] category = "classes" ->
           {m \in db.modules : \E c \in db.classes : c.id = id /\ c.module_id = m.id}
      [] category = "functions" ->
           {m \in db.modules : \E f \in db.functions : f.id = id /\ f.module_id = m.id}
      [] category = "variables" ->
           {m \in db.modules : \E v \in db.variables : v.id = id /\ v.module_id = m.id}

\* C13: with a project id, every entry of every category comes from a row whose
\* Module has that project_id; without one, the rows of every project are
\* eligible: what a category holds for any project id is in the result too,
\* unless the limit cut it.
C13_ProjectFilter ==
    search # None =>
       \A category \in Categories :
          /\ search[1].project_id # None =>
                \A k \in 1..Len(search[1].result[category]) :
                   \E m \in OwnersOf(category, search[1].result[category][k].id) :
                      m.project_id = search[1].project_id[1]
          /\ search[1].project_id = None
               /\ Len(search[1].result[category]) < search[1].limit =>
                \A p \in db.projects :
                   LET filtered == search_code(db, search[1].query, Some(p.id),
                                               search[1].limit)[category]
                   IN \A k \in 1..Len(filtered) :
                         \E j \in 1..Len(search[1].result[category]) :
                            search[1].result[category][j] = filtered[k]

\* a search with project id 1 has returned the function of project 1 and not
\* the function of project 2 that matches the query too
C13_Witness ==
    /\ search # None
    /\ search[1].project_id = Some(1)
    /\ search[1].limit = DefaultLimit
    /\ search[1].result.functions # <<>>
    /\ \E f \in db.functions :
          /\ InName(f)
          /\ f.id \notin EntryIds(search[1].result.functions)
          /\ \E m \in db.modules : m.id = f.module_id /\ m.project_id = 2

\* C15: an entry of the functions category built from a Function row whose
\* class_id refers to Class c carries class_name = c.name, and one built from a
\* row with a null class_id carries no class name.
C15_MethodResolution ==
    search # None =>
       \A k \in 1..Len(search[1].result.functions) :
          LET entry == search[1].result.functions[k]
          IN \A f \in db.functions :
                f.id = entry.id =>
                   /\ f.class_id = None => entry.class_name = None
                   /\ \A c \in db.classes :
                         f.class_id = Some(c.id) => entry.class_name = Some(c.name)

\* a search has returned a method with the name of its class and a top-level
\* function without a class name
C15_Witness ==
    /\ search # None
    /\ \E k, j \in 1..Len(search[1].result.functions) :
          /\ search[1].result.functions[k].class_name = Some(<<"A", "b">>)
          /\ \E f \in db.functions :
                /\ f.id = search[1].result.functions[j].id
                /\ f.class_id = None
                /\ search[1].result.functions[j].class_name = None

\* C20: the result of a search has exactly the four keys modules, classes,
\* functions and variables, and each of them is bound to a list.
C20_ResultShape ==
    search # None =>
       /\ DOMAIN search[1].result = Categories
       /\ \A category \in Categories :
             DOMAIN search[1].result[category] = 1..Len(search[1].result[category])

\* a structured search of the empty catalog has returned four empty lists
C20_Witness ==
    /\ search # None
    /\ db = EmptyCatalog
    /\ search[1].query = Kind_class \o <<":", "A", "b">>
    /\ \A category \in Categories : search[1].result[category] = <<>>

\* the term of the search kind:term, as the claims read it
TermOf(kind) ==
    Lower(Trim(SubSeq(search[1].query, Len(kind) + 2, Len(search[1].query))))

\* the search is kind:term for a term of Terms
IsSearch(kind) ==
    search # None /\ \E term \in Terms : search[1].query = kind \o <<":">> \o term

\* the Import rows that an import search of the term is to return
ImportsFor(term) ==
    {i \in InProject(db.imports) :
        \/ Contains(Lower(i.module_name), term)
        \/ i.parent_module # None /\ Contains(Lower(i.parent_module[1]), term)}

\* the entry that an Import row is to be rendered as
Rendered(i) ==
    LET owner == CHOOSE m \in db.modules : m.id = i.module_id
        stem == IF i.is_from_import
                THEN <<"f", "r", "o", "m", " ">> \o i.parent_module[1]
                       \o <<" ", "i", "m", "p", "o", "r", "t", " ">> \o i.module_name
                ELSE <<"i", "m", "p", "o", "r", "t", " ">> \o i.module_name
    IN [id |-> owner.id,
        name |-> IF i.alias = None THEN stem ELSE stem \o <<" ", "a", "s", " ">> \o i.alias[1],
        path |-> owner.path,
        docstring |-> Some(<<"I", "m", "p", "o", "r", "t", " ", "i", "n", " ">> \o owner.name)]

\* the smaller of two numbers
Min(a, b) == IF a < b THEN a ELSE b

\* C23: a search import:term returns, in the modules category only, one entry
\* per Import row whose module_name or parent_module contains the term, case
\* aside, up to the limit: the entry has the id and the path of the Module of
\* the row, the name "from {parent_module} import {module_name}" for a
\* from-import and "import {module_name}" otherwise, followed by
\* " as {alias}" iff the row has an alias, and the docstring
\* "Import in {name of the Module}".
C23_ImportSearch ==
    IsSearch(Kind_import) =>
       LET result == search[1].result
           matching == ImportsFor(TermOf(Kind_import))
       IN /\ result.classes = <<>> /\ result.functions = <<>> /\ result.variables = <<>>
          /\ Len(result.modules) = Min(search[1].limit, Cardinality(matching))
          /\ \A k \in 1..Len(result.modules) :
                \E i \in matching : result.modules[k] = Rendered(i)
          /\ Len(result.modules) < search[1].limit =>
                \A i \in matching :
                   \E k \in 1..Len(result.modules) : result.modules[k] = Rendered(i)

\* the row has a docstring that contains the term, case aside
DocstringHas(row, term) ==
    row.docstring # None /\ Contains(Lower(row.docstring[1]), term)

\* the entries of the category are built from the rows of matching: as many as
\* the limit allows, and all of them when they are fewer than the limit
ExactlyRows(category, matching) ==
    LET entries == search[1].result[category]
    IN /\ Len(entries) = Min(search[1].limit, Cardinality(matching))
       /\ EntryIds(entries) \subseteq Ids(matching)
       /\ Cardinality(EntryIds(entries)) = Len(entries)

\* C24: a search doc:term or docstring:term returns exactly the Module, Class
\* and Function rows whose docstring contains the term, case aside, up to the
\* limit in each of the categories modules, classes and functions: a row that
\* has the term in its name only or that has no docstring is not returned, and
\* the variables category is empty.
C24_DocstringSearch ==
    \A kind \in {Kind_doc, Kind_docstring} :
       IsSearch(kind) =>
          /\ ExactlyRows("modules", {m \in ProjectModules : DocstringHas(m, TermOf(kind))})
          /\ ExactlyRows("classes",
                         {c \in InProject(db.classes) : DocstringHas(c, TermOf(kind))})
          /\ ExactlyRows("functions",
                         {f \in InProject(db.functions) : DocstringHas(f, TermOf(kind))})
          /\ search[1].result.variables = <<>>

\* C25: when an existing Module is re-indexed, the clearing step leaves no
\* Function row of that module, top-level function or method of one of its
\* deleted classes, before the rows of the new description are inserted.
C25_ClearingRemovesMethods ==
    \A m \in db.modules :
       \A f \in ClearModule(db, m.id).functions : f.module_id # m.id

\* C27: index_project, search_code, get_file_content and get_projects close
\* every session they open on every way out (return, not found, rollback after
\* a failure, fallback of the structured search to the free-text search inside
\* its own session): no session is open when no operation is in progress.
C27_SessionsReleased == sessions = 0

\* a search of an unknown kind fell back to the free-text search, a file view
\* returned not found, and no session is open
C27_Witness ==
    /\ sessions = 0
    /\ search # None
    /\ search[1].query = Kind_bogus \o <<":", "a", "b">>
    /\ search[1].result.modules # <<>>
    /\ reply # None
    /\ reply[1].op = "get_file_content"
    /\ reply[1].result = None

\* the step is a query: a search, a file view or a list of the projects
QueryStep ==
    \/ search' # search /\ search' # None
    \/ reply' # reply /\ reply' # None

\* C28: a search in any mode, a file view (found, not found, unreadable) and a
\* list of the projects leave every row of the catalog as it is, so that the
\* result of each query, whatever queries ran before or after it, is the one
\* it has on the catalog as the indexer left it.
C28_QueriesReadOnly ==
    /\ [][QueryStep => db' = db]_vars
    /\ [](search # None =>
            search[1].result
              = search_code(db, search[1].query, search[1].project_id, search[1].limit))
    /\ [](reply # None /\ reply[1].op = "get_file_content" =>
            reply[1].result = get_file_content(db, reply[1].path, reply[1].readable))
    /\ [](reply # None /\ reply[1].op = "get_projects" =>
            reply[1].result = get_projects(db))

\* a fallback search and a file view whose read failed have both run on a
\* catalog that holds the rows of a class with a method
C28_Witness ==
    /\ search # None
    /\ search[1].query = Kind_bogus \o <<":", "a", "b">>
    /\ search[1].result.functions # <<>>
    /\ reply # None
    /\ reply[1].op = "get_file_content"
    /\ reply[1].result # None
    /\ ~reply[1].readable
    /\ db.classes # {}

\* the rows of a table that belong to a module
RowsOf(rows, module_id) == {r \in rows : r.module_id = module_id}

\* the paths of the list of the call
ListedPaths(call) == {call.modules[k].path : k \in 1..Len(call.modules)}

\* C29: a call of index_project that returns leaves the rows of the other
\* projects as they are, and the Module rows of its project whose path is not
\* in its list with all their Function, Class, Import and Variable rows; the
\* Project row of an existing project keeps its name and root_path, and the
\* row of an existing Module keeps its id, name and docstring, whatever name
\* and docstring the call gives.
C29_IndexFrame ==
    [][Returned =>
         /\ \A p \in db.projects :
               IF p.id = outcome'.project_id
               THEN \E q \in db'.projects :
                       q.id = p.id /\ q.name = p.name /\ q.root_path = p.root_path
               ELSE p \in db'.projects
         /\ \A m \in db.modules :
               IF m.project_id = outcome'.project_id /\ m.path \in ListedPaths(lastCall'[1])
               THEN \E n \in db'.modules :
                       /\ n.id = m.id /\ n.project_id = m.project_id /\ n.path = m.path
                       /\ n.name = m.name /\ n.docstring = m.docstring
               ELSE /\ m \in db'.modules
                    /\ RowsOf(db'.functions, m.id) = RowsOf(db.functions, m.id)
                    /\ RowsOf(db'.classes, m.id) = RowsOf(db.classes, m.id)
                    /\ RowsOf(db'.imports, m.id) = RowsOf(db.imports, m.id)
                    /\ RowsOf(db'.variables, m.id) = RowsOf(db.variables, m.id)]_vars

\* the file of project n1 that was indexed with the docstring "ba" has been
\* re-indexed under the name n2 with no docstring: the project is still named
\* n1, the module still has its docstring, and the import and the function of
\* the file of the other project are there
C29_Witness ==
    /\ outcome.status = "returned"
    /\ lastCall = Some([name |-> "n2", root_path |-> "/r1",
                        modules |-> << ModuleInfo("/r1/ab.py", EmptyBody) >>])
    /\ \E p \in db.projects : p.id = outcome.project_id /\ p.name = "n1"
    /\ \E m \in db.modules :
          /\ m.path = "/r1/ab.py"
          /\ m.docstring = Some(<<"b", "a">>)
          /\ RowsOf(db.imports, m.id) = {}
    /\ \E m \in db.modules :
          /\ m.project_id # outcome.project_id
          /\ RowsOf(db.imports, m.id) # {}
          /\ RowsOf(db.functions, m.id) # {}

\* the callers that looked the project up, found none, and went on to write
FoundNone == {i \in Indexers : indexers[i].pc \in {"flushed", "done"}
                                 /\ indexers[i].found = None}

\* the callers that found no project and have committed
CommittedNew == {i \in FoundNone : indexers[i].pc = "done"}

\* at most one Module row per project and path
ModuleUnique ==
    \A m, n \in db.modules : m.project_id = n.project_id /\ m.path = n.path => m = n

C14_TruncationPolicy ==
    reply # None /\ reply[1].op = "_truncate_text" /\ reply[1].returned =>
       LET text == reply[1].text
           result == reply[1].result
           max == IF reply[1].field = "value" THEN 100 ELSE 200
       IN IF text = None \/ Len(text[1]) = 0 THEN result = None
          ELSE IF Len(text[1]) <= max THEN result = text
          ELSE /\ result # None
               /\ Len(result[1]) = max + 3
               /\ \A k \in 1..max : result[1][k] = text[1][k]
               /\ \A k \in (max + 1)..(max + 3) : result[1][k] = "."

\* a docstring of 250 characters has been truncated to 200 characters and "..."
C14_Witness ==
    /\ reply # None
    /\ reply[1].op = "_truncate_text"
    /\ reply[1].returned
    /\ reply[1].field = "docstring"
    /\ reply[1].text # None
    /\ Len(reply[1].text[1]) = 250
    /\ reply[1].result # None
    /\ Len(reply[1].result[1]) = 203

(***************************************************************************)
(* What the claims about the views speak of.                               *)
(***************************************************************************)
\* the reply is that of a get_file_content that found the module
FileFound ==
    reply # None /\ reply[1].op = "get_file_content" /\ reply[1].result # None

\* the place of an element in a list: the first one where it stands
PlaceIn(list, element) == CHOOSE k \in 1..Len(list) : list[k] = element

\* the number of times an element stands in a list
TimesIn(list, element) == Cardinality({k \in 1..Len(list) : list[k] = element})

\* C16: the elements of a file view are in ascending order of lineno, elements
\* with the same lineno are in the order of their enumeration (top-level
\* functions, each class followed by its methods, variables), and they are the
\* enumerated elements.
C16_FileViewOrdering ==
    FileFound =>
       LET elements == reply[1].result[1].elements
           enumerated == FileElements(db, First(FindModule(db, reply[1].path)))
       IN /\ Len(elements) = Len(enumerated)
          /\ \A k \in 1..Len(enumerated) :
                TimesIn(elements, enumerated[k]) = TimesIn(enumerated, enumerated[k])
          /\ \A k, j \in 1..Len(elements) :
                k < j =>
                   /\ elements[k].lineno <= elements[j].lineno
                   /\ elements[k].lineno = elements[j].lineno =>
                         PlaceIn(enumerated, elements[k]) <= PlaceIn(enumerated, elements[j])

\* a view lists the variable of line 1 before the function and the variable of
\* line 2, which were enumerated function first
C16_Witness ==
    /\ FileFound
    /\ Len(reply[1].result[1].elements) = 3
    /\ [k \in 1..3 |-> reply[1].result[1].elements[k].type]
         = <<"variable", "function", "variable">>
    /\ [k \in 1..3 |-> reply[1].result[1].elements[k].lineno] = <<1, 2, 2>>

\* what identifies an element of a file view: its type, name and line
ElementKey(type, name, lineno) == [type |-> type, name |-> name, lineno |-> lineno]

\* the elements that the classes of a description call for: each class, and
\* each of its methods under the name of the class
RECURSIVE DescribedClassKeys(_)
DescribedClassKeys(classes) ==
    IF classes = <<>> THEN <<>>
    ELSE LET c == Head(classes)
         IN <<ElementKey("class", c.name, c.lineno)>>
              \o [k \in 1..Len(c.methods) |->
                    ElementKey("method", c.name \o <<".">> \o c.methods[k].name,
                               c.methods[k].lineno)]
              \o DescribedClassKeys(Tail(classes))

\* the elements that a description calls for
DescribedKeys(d) ==
    [k \in 1..Len(d.functions) |->
       ElementKey("function", d.functions[k].name, d.functions[k].lineno)]
      \o DescribedClassKeys(d.classes)
      \o [k \in 1..Len(d.variables) |->
            ElementKey("variable", d.variables[k].name, d.variables[k].lineno)]

\* C26: the elements of the file view of an indexed path are exactly one per
\* top-level function, class, method (named Class.method) and variable of the
\* description last indexed for that module: none twice, none of an earlier
\* indexing, none of another module.
C26_FileViewExact ==
    FileFound =>
       LET elements == reply[1].result[1].elements
           keys == [k \in 1..Len(elements) |->
                      ElementKey(elements[k].type, elements[k].name, elements[k].lineno)]
           module == First(FindModule(db, reply[1].path))
       IN \E e \in latest :
             /\ e.project_id = module.project_id
             /\ e.path = module.path
             /\ Len(keys) = Len(DescribedKeys(e.module_info))
             /\ \A k \in 1..Len(DescribedKeys(e.module_info)) :
                   TimesIn(keys, DescribedKeys(e.module_info)[k])
                     = TimesIn(DescribedKeys(e.module_info), DescribedKeys(e.module_info)[k])

\* C17: get_file_content returns None, without opening the file, exactly when no
\* Module row has the given path, and a pair of a content and elements when one
\* has.
C17_NotFoundIsValue ==
    reply # None /\ reply[1].op = "get_file_content" =>
       /\ reply[1].result = None <=> ~\E m \in db.modules : m.path = reply[1].path
       /\ reply[1].result = None => ~reply[1].opened
       /\ reply[1].result # None =>
             DOMAIN reply[1].result[1] = {"content", "elements"}

\* a path that differs from an indexed one by its case has been asked for, and
\* None returned
C17_Witness ==
    /\ reply # None
    /\ reply[1].op = "get_file_content"
    /\ reply[1].path = "/r1/AB.py"
    /\ \E m \in db.modules : m.path = "/r1/ab.py"
    /\ reply[1].result = None
    /\ ~reply[1].opened

\* C18: when the Module row exists and the file cannot be read, the content is
\* the string that describes the error and the elements are those returned
\* when the file can be read, on the same catalog.
C18_ReadFailureDegrades ==
    FileFound /\ ~reply[1].readable =>
       /\ SubSeq(reply[1].result[1].content, 1, 20)
            = <<"E", "r", "r", "o", "r", " ", "r", "e", "a", "d", "i", "n", "g", " ",
                "f", "i", "l", "e", ":", " ">>
       /\ get_file_content(db, reply[1].path, TRUE) # None
       /\ reply[1].result[1].elements
            = get_file_content(db, reply[1].path, TRUE)[1].elements

\* a file that cannot be read has been asked for, and its four elements returned
C18_Witness ==
    /\ FileFound
    /\ ~reply[1].readable
    /\ Len(reply[1].result[1].elements) = 4

\* C19: get_projects returns one entry per Project row, with the row's id, name
\* and root path and, as file_count, the number of Module rows of the project.
C19_ProjectListing ==
    reply # None /\ reply[1].op = "get_projects" =>
       /\ Len(reply[1].result) = Cardinality(db.projects)
       /\ \A p \in db.projects :
             \E k \in 1..Len(reply[1].result) :
                reply[1].result[k] =
                   [id |-> p.id, name |-> p.name, root_path |-> p.root_path,
                    file_count |->
                       Cardinality({m \in db.modules : m.project_id = p.id}),
                    created_at |-> <<"T", p.created_at>>,
                    updated_at |-> <<"T", p.updated_at>>]

\* the list holds a project indexed with an empty list, with file_count 0, and
\* a project with two files
C19_Witness ==
    /\ reply # None
    /\ reply[1].op = "get_projects"
    /\ Len(reply[1].result) = 2
    /\ \E k, j \in 1..2 :
          reply[1].result[k].file_count = 0 /\ reply[1].result[j].file_count = 2

(***************************************************************************)
(* What the claims about the timestamps speak of.                          *)
(***************************************************************************)
\* this step is a call of index_project that returned, made at the time clock
ReturnedAt == clock' = clock /\ Returned

\* C21: a call of index_project that returns, made on an existing project at a
\* time later than its updated_at, leaves the project's updated_at later than it
\* was, and no step makes an updated_at earlier.
C21_UpdatedAtAdvances ==
    /\ [][ReturnedAt =>
            \A p \in db.projects :
               p.id = outcome'.project_id /\ p.updated_at < clock =>
                  \E q \in db'.projects : q.id = p.id /\ q.updated_at > p.updated_at]_vars
    /\ [][\A p \in db.projects : \A q \in db'.projects :
            q.id = p.id => q.updated_at >= p.updated_at]_vars

\* C22: after a call of index_project that returns, every Module of the project
\* whose path is in the list of the call has the time of the call as its
\* last_indexed, and every other Module row is as it was.
C22_LastIndexedStamped ==
    [][ReturnedAt =>
         \A m \in db'.modules :
            IF /\ m.project_id = outcome'.project_id
               /\ \E k \in 1..Len(lastCall'[1].modules) :
                     lastCall'[1].modules[k].path = m.path
            THEN m.last_indexed = clock
            ELSE m \in db.modules]_vars

\* a call has stamped one module of a project with a later time than the one
\* the other module of the project keeps
C22_Witness ==
    /\ outcome.status = "returned"
    /\ lastCall # None
    /\ Len(lastCall[1].modules) = 1
    /\ \E m, n \in db.modules :
          /\ m.project_id = outcome.project_id
          /\ n.project_id = outcome.project_id
          /\ m.path = lastCall[1].modules[1].path
          /\ n.path # m.path
          /\ m.last_indexed = clock
          /\ n.last_indexed < m.last_indexed

====
